---- MODULE Spec2Model ----
(***************************************************************************)
(* A model of scp_ema_parser.py (class EMA_Parser).                        *)
(*                                                                         *)
(* Python strings are sequences of one-character strings, so that          *)
(* split / replace / strip / indexing are computed as the code computes    *)
(* them.  A Python call that may raise is an operator returning a record   *)
(* [ok, ...]; ok = FALSE is the raised exception.                          *)
(***************************************************************************)
EXTENDS Integers, Sequences, FiniteSets, TLC

VARIABLES
    arg,            \* input of the function under study (function specifications)
    ret,            \* its result
    step,           \* how many times it has been applied
    keys,           \* list(data.keys()): the store's keys in iteration order
    data,           \* the record store: key -> subject record
    pc,             \* position of run_this_puppy
    pos,            \* index of the next key of the loop that is running
    duplicates,     \* response-duplicates.json
    keepers,        \* the subject tables collected by the answers loop
    parent_errors,  \* key -> record of the subjects without answers
    log,            \* the answers-stage log: entries [user, stage]
    files,          \* the per-subject output directory: file name -> table written
    answers,        \* parse_responses' local answers: [bound, df]
    pings,          \* parse_responses' local pings: [bound, rows]
    caught,         \* the keys whose parse_responses call raised (history)
    aggregate,      \* the pings aggregate file: its rows, once written
    device_output,  \* the device rows collected by the device loop
    device_log,     \* the device-stage log
    devices_file    \* the devices aggregate file: its rows

fnvars == <<arg, ret, step>>

runvars == <<keys, data, pc, pos, duplicates, keepers, parent_errors, log, files,
             answers, pings, caught, aggregate, device_output, device_log, devices_file>>

vars == <<fnvars, runvars>>

\* The function specifications leave the run where it is: nothing loaded
RunIdle ==
    /\ keys = <<>>
    /\ data = <<>>
    /\ pc = "idle"
    /\ pos = 0
    /\ duplicates = <<>>
    /\ keepers = <<>>
    /\ parent_errors = <<>>
    /\ log = <<>>
    /\ files = <<>>
    /\ answers = [bound |-> FALSE, df |-> [cols |-> {}, rows |-> <<>>]]
    /\ pings = [bound |-> FALSE, rows |-> <<>>]
    /\ caught = {}
    /\ aggregate = <<>>
    /\ device_output = <<>>
    /\ device_log = <<>>
    /\ devices_file = <<>>

---------------------------------------------------------------------------
(* Python str primitives                                                   *)

\* s[1:]
DropFirst(s) == SubSeq(s, 2, Len(s))

\* s[:-1]
DropLast(s) == SubSeq(s, 1, Len(s) - 1)

\* s.replace(c, r) for a one-character pattern c and a replacement string r
RECURSIVE Replace(_, _, _)
Replace(s, c, r) ==
    IF s = <<>> THEN <<>>
    ELSE (IF Head(s) = c THEN r ELSE <<Head(s)>>) \o Replace(Tail(s), c, r)

\* s.find(d): the first index at which d occurs in s, 0 when it does not
Find(s, d) ==
    LET hits == {i \in 1..(Len(s) - Len(d) + 1) : SubSeq(s, i, i + Len(d) - 1) = d}
    IN  IF hits = {} THEN 0 ELSE CHOOSE i \in hits : \A j \in hits : i <= j

\* d in s
Contains(s, d) == Find(s, d) # 0

\* s.split(d): the list of the pieces of s between the occurrences of d
RECURSIVE Split(_, _)
Split(s, d) ==
    LET i == Find(s, d)
    IN  IF i = 0 THEN <<s>>
        ELSE <<SubSeq(s, 1, i - 1)>> \o Split(SubSeq(s, i + Len(d), Len(s)), d)

\* "".join(l)
RECURSIVE Join(_)
Join(l) == IF l = <<>> THEN <<>> ELSE Head(l) \o Join(Tail(l))

\* s.strip()
RECURSIVE LStrip(_)
LStrip(s) == IF s # <<>> /\ Head(s) = " " THEN LStrip(Tail(s)) ELSE s

RECURSIVE RStrip(_)
RStrip(s) == IF s # <<>> /\ s[Len(s)] = " " THEN RStrip(DropLast(s)) ELSE s

Strip(s) == RStrip(LStrip(s))

\* a raised exception, and a returned string
Raised == [ok |-> FALSE, v |-> <<>>]

Returned(s) == [ok |-> TRUE, v |-> s]

---------------------------------------------------------------------------
(* cleanup_values                                                          *)

SQ == "'"

DQ == "\""

\* temp[0] and temp[-1] raise IndexError on the empty string; every
\* conditional of the code is one stage here.
cleanup_values(x) ==
    IF x = <<>> THEN Raised
    ELSE LET t1 == IF Head(x) = "[" THEN DropFirst(x) ELSE x
         IN  IF t1 = <<>> THEN Raised
             ELSE LET t2 == IF t1[Len(t1)] = "]" THEN DropLast(t1) ELSE t1
                  IN  IF t2 = <<>> THEN Raised
                      ELSE LET t3 == IF Head(t2) = SQ \/ Head(t2) = DQ
                                     THEN DropFirst(t2) ELSE t2
                           IN  IF t3 = <<>> THEN Raised
                               ELSE Returned(IF t3[Len(t3)] = SQ \/ t3[Len(t3)] = DQ
                                             THEN DropLast(t3) ELSE t3)

---------------------------------------------------------------------------
(* Specification of cleanup_values on every short string                   *)

MaxStrLen == 3

CleanupAlphabet == {"[", "]", SQ, DQ, "a"}

RECURSIVE StringsUpTo(_, _)
StringsUpTo(A, n) ==
    IF n = 0 THEN {<<>>}
    ELSE LET shorter == StringsUpTo(A, n - 1)
         IN  shorter \cup {<<c>> \o s : c \in A, s \in {t \in shorter : Len(t) = n - 1}}

InitCleanup ==
    /\ arg \in StringsUpTo(CleanupAlphabet, MaxStrLen)
    /\ ret = Returned(arg)
    /\ step = 0
    /\ RunIdle

\* cleanup_values(x), then cleanup_values(cleanup_values(x))
CleanupApply ==
    /\ step < 2
    /\ ret.ok
    /\ ret' = cleanup_values(ret.v)
    /\ step' = step + 1
    /\ UNCHANGED <<arg, runvars>>

NextCleanup == CleanupApply

SpecCleanup == InitCleanup /\ [][NextCleanup]_vars

---------------------------------------------------------------------------
(* Cell values of a table: a Python str, a float NaN, None, or a list of   *)
(* strings.                                                                *)

Str(s) == [t |-> "str", s |-> s, l |-> <<>>]

NaN == [t |-> "nan", s |-> <<>>, l |-> <<>>]

None == [t |-> "none", s |-> <<>>, l |-> <<>>]

List(l) == [t |-> "list", s |-> <<>>, l |-> l]

\* str(x) of a str without quote characters, as it appears inside a list
ReprStr(s) == <<SQ>> \o s \o <<SQ>>

\* str(True), str(False)
ReprBool(b) == IF b THEN <<"T", "r", "u", "e">> ELSE <<"F", "a", "l", "s", "e">>

\* ", ".join(items)
RECURSIVE CommaJoin(_)
CommaJoin(items) ==
    IF items = <<>> THEN <<>>
    ELSE IF Len(items) = 1 THEN items[1]
    ELSE items[1] \o <<",", " ">> \o CommaJoin(Tail(items))

\* str(l) of a list whose items' texts are given
ReprList(items) == <<"[">> \o CommaJoin(items) \o <<"]">>

\* The text derive_answers stores for an answer whose data map has the one
\* value v (given by its text): str(list(dict(data).values())), cleaned.
StoredValue(reprOfValue) == cleanup_values(ReprList(<<reprOfValue>>))

---------------------------------------------------------------------------
(* Tables (pandas DataFrames).  A table is [cols, rows]: the set of its    *)
(* column names other than the ping id, and the sequence of its rows; a    *)
(* row is [id, c] with c a function from cols to cell values.              *)

\* A raw Python list (the values of an answer's data map), by its items' texts
RawList(reprs) == [t |-> "rawlist", s |-> <<>>, l |-> reprs]

\* str(x)
PyStr(x) ==
    CASE x.t = "str"     -> x.s
      [] x.t = "nan"     -> <<"n", "a", "n">>
      [] x.t = "none"    -> <<"N", "o", "n", "e">>
      [] x.t = "rawlist" -> ReprList(x.l)
      [] x.t = "list"    -> ReprList([i \in 1..Len(x.l) |-> ReprStr(x.l[i])])

\* DF[col] = [v] * len(DF)
AddColumn(df, col, v) ==
    [cols |-> df.cols \cup {col},
     rows |-> [i \in 1..Len(df.rows) |->
                 [id |-> df.rows[i].id,
                  c  |-> [k \in df.cols \cup {col} |->
                             IF k = col THEN v ELSE df.rows[i].c[k]]]]]

\* DF.loc[ix, col] = v; a column DF does not have is created, NaN elsewhere
SetCell(df, ix, col, v) ==
    [cols |-> df.cols \cup {col},
     rows |-> [i \in 1..Len(df.rows) |->
                 [id |-> df.rows[i].id,
                  c  |-> [k \in df.cols \cup {col} |->
                             IF k = col /\ i = ix THEN v
                             ELSE IF k \in df.cols THEN df.rows[i].c[k]
                             ELSE NaN]]]]

---------------------------------------------------------------------------
(* derive_answers                                                          *)

\* The ping ids of the model, in the order pivot sorts its index
PingIds == <<"p1", "p2">>

\* isolate_values: one raw answer row to its value
isolate_values(a) ==
    IF a.preferNotToAnswer THEN Str(<<"P", "N", "A">>)
    ELSE IF a.data.isMap THEN RawList(a.data.reprs)
    ELSE None

\* drop_duplicates(subset="date", keep="first"): the rows from the n-th on
\* that no earlier row shares its date with
RECURSIVE FirstOfDate(_, _)
FirstOfDate(rows, n) ==
    IF n > Len(rows) THEN <<>>
    ELSE (IF \A j \in 1..(n - 1) : rows[j].date # rows[n].date
          THEN <<rows[n]>> ELSE <<>>) \o FirstOfDate(rows, n + 1)

DropDuplicateDates(rows) == FirstOfDate(rows, 1)

\* pivot raises ValueError when two rows share (pingId, questionId)
PivotDuplicates(rows) ==
    \E i, j \in 1..Len(rows) :
        /\ i < j
        /\ rows[i].pingId = rows[j].pingId
        /\ rows[i].questionId = rows[j].questionId

\* pivot(index="pingId", columns="questionId", values="value"), pingId -> id
Pivot(rows) ==
    LET present == {rows[i].pingId : i \in 1..Len(rows)}
        ids     == SelectSeq(PingIds, LAMBDA p : p \in present)
        cols    == {rows[i].questionId : i \in 1..Len(rows)}
        At(p, q) == {i \in 1..Len(rows) : rows[i].pingId = p /\ rows[i].questionId = q}
    IN  [cols |-> cols,
         rows |-> [n \in 1..Len(ids) |->
                     [id |-> ids[n],
                      c  |-> [q \in cols |->
                                 IF At(ids[n], q) = {} THEN NaN
                                 ELSE rows[CHOOSE i \in At(ids[n], q) : TRUE].value]]]]

NoTable == [cols |-> {}, rows |-> <<>>]

\* The result names the stages logged inside (cleanup_values) and whether
\* the function returned; a failed cleanup pass leaves the raw values.
derive_answers(given) ==
    LET raw     == [i \in 1..Len(given) |-> isolate_values(given[i])]
        cleaned == [i \in 1..Len(given) |-> cleanup_values(PyStr(raw[i]))]
        allOk   == \A i \in 1..Len(given) : cleaned[i].ok
        valued  == [i \in 1..Len(given) |->
                      [pingId |-> given[i].pingId,
                       questionId |-> given[i].questionId,
                       date |-> given[i].date,
                       value |-> IF allOk THEN Str(cleaned[i].v) ELSE raw[i]]]
        deduped == DropDuplicateDates(valued)
        logged  == IF allOk THEN <<>> ELSE <<"cleanup_values">>
    IN  IF PivotDuplicates(deduped)
        THEN [ok |-> FALSE, df |-> NoTable, logged |-> logged]
        ELSE [ok |-> TRUE, df |-> Pivot(deduped), logged |-> logged]

---------------------------------------------------------------------------
(* parse_race.isolate_race_value                                           *)

TrueText == <<"T", "r", "u", "e">>

FalseText == <<"F", "a", "l", "s", "e">>

\* A category group as the survey exports it: [label, flag]
ReprGroup(g) == ReprList(<<ReprStr(g.label), ReprBool(g.flag)>>)

\* The Race cell of a subject who was shown the groups gs
RaceText(gs) == StoredValue(ReprList([i \in 1..Len(gs) |-> ReprGroup(gs[i])])).v

\* race_vals of the code, for the flag text the groups are filtered by
RaceLabels(x, flagText) ==
    LET temp   == Replace(Replace(x, DQ, <<>>), SQ, <<>>)
        groups == Split(temp, <<"]", ",">>)
        kept   == SelectSeq(groups, LAMBDA k : Contains(k, flagText))
        first  == [i \in 1..Len(kept) |-> Split(kept[i], <<",">>)[1]]
    IN  [i \in 1..Len(first) |->
            Replace(Replace(Strip(first[i]), "[", <<>>), "]", <<>>)]

isolate_race_value_wrong_flag(x) ==
    IF x.t # "str" THEN None ELSE List(RaceLabels(x.s, FalseText))

\* A value that is no str has no replace(): the except branch returns None
isolate_race_value(x) ==
    IF x.t # "str" THEN None ELSE List(RaceLabels(x.s, TrueText))

\* parse_race.  DF['Race'] = [] * len(DF) assigns an empty list: pandas
\* raises ValueError unless DF has no rows, and the assignment sits in the
\* except branch, so the error leaves parse_race.  The result is [ok, df]:
\* whether the call returned, and the table as the call left it.
parse_race(df) ==
    IF "Race" \in df.cols
    THEN [ok |-> TRUE,
          df |-> [cols |-> df.cols,
                  rows |-> [i \in 1..Len(df.rows) |->
                              [id |-> df.rows[i].id,
                               c  |-> [k \in df.cols |->
                                          IF k = "Race"
                                          THEN isolate_race_value(df.rows[i].c[k])
                                          ELSE df.rows[i].c[k]]]]]]
    ELSE IF Len(df.rows) = 0
    THEN [ok |-> TRUE, df |-> AddColumn(df, "Race", NaN)]
    ELSE [ok |-> FALSE, df |-> df]

---------------------------------------------------------------------------
(* parse_nominations                                                       *)

\* list(voi.keys())
Parents == <<"SU_Nom", "SU_Nom_None_Nom", "NSU_Rel", "NSU_Nom_None_Nom">>

\* voi[parent].format(k)
ChildName(parent, k) ==
    CASE parent = "SU_Nom"           -> "SU_Nom_" \o ToString(k)
      [] parent = "SU_Nom_None_Nom"  -> "SU_Nom_None_Nom_" \o ToString(k)
      [] parent = "NSU_Rel"          -> "NSU" \o ToString(k) \o "_Rel"
      [] parent = "NSU_Nom_None_Nom" -> "NSU" \o ToString(k) \o "_None_Rel"

Slots == <<1, 2, 3>>

\* The rows the value loop skips: np.isnan(value) returns for a float and
\* for an empty list, str(value) == "None", value == "PNA"
NomSkipped(value) ==
    \/ value.t = "nan"
    \/ value.t = "none"
    \/ value.t \in {"rawlist", "list"} /\ value.l = <<>>
    \/ value.t = "str" /\ value.s \in {<<"N", "o", "n", "e">>, <<"P", "N", "A">>}

\* One row of the value loop.  After "for k in range(len(value))" has run,
\* k is len(value) - 1 and new_var names slot len(value): the statements
\* that follow the loop run once, on the last item.
NomRow(df, parent, ix) ==
    LET value == df.rows[ix].c[parent]
    IN  IF NomSkipped(value) THEN [ok |-> TRUE, df |-> df]
        ELSE IF value.t # "str" THEN [ok |-> FALSE, df |-> df]
        ELSE LET items   == Split(Replace(value.s, DQ, <<SQ>>), <<SQ, ",">>)
                 n       == Len(items)
                 new_var == ChildName(parent, n)
                 new_val == Strip(Replace(Replace(items[n], "[", <<>>), "]", <<>>))
             IN  [ok |-> TRUE, df |-> SetCell(df, ix, new_var, Str(new_val))]

RECURSIVE NomRows(_, _, _)
NomRows(df, parent, ix) ==
    IF ix > Len(df.rows) THEN [ok |-> TRUE, df |-> df]
    ELSE LET r == NomRow(df, parent, ix)
         IN  IF r.ok THEN NomRows(r.df, parent, ix + 1) ELSE r

\* DF[new_var] = [''] * len(DF) for k in 1, 2, 3
AddChildColumns(df, parent) ==
    AddColumn(AddColumn(AddColumn(df, ChildName(parent, 1), Str(<<>>)),
                        ChildName(parent, 2), Str(<<>>)),
              ChildName(parent, 3), Str(<<>>))

\* The first loop over the parents.  DF[parent] = [] * len(DF) raises
\* ValueError unless DF has no rows; DF is changed in place, so what was
\* done before the error stays done.
RECURSIVE NomParents(_, _)
NomParents(df, p) ==
    IF p > Len(Parents) THEN [ok |-> TRUE, df |-> df]
    ELSE IF Parents[p] \notin df.cols
    THEN IF Len(df.rows) = 0
         THEN NomParents(AddColumn(df, Parents[p], NaN), p + 1)
         ELSE [ok |-> FALSE, df |-> df]
    ELSE LET r == NomRows(AddChildColumns(df, Parents[p]), Parents[p], 1)
         IN  IF r.ok THEN NomParents(r.df, p + 1) ELSE r

\* The child columns in the order the second loop visits them
ChildColumns ==
    [n \in 1..(Len(Parents) * Len(Slots)) |->
        ChildName(Parents[((n - 1) \div Len(Slots)) + 1], Slots[((n - 1) % Len(Slots)) + 1])]

\* The second loop: DF[new_var] = DF[new_var].apply(cleanup_values).  A
\* missing column is a KeyError; one cell that cleanup_values raises on
\* leaves the column unassigned and ends the function.
RECURSIVE NomCleanup(_, _)
NomCleanup(df, n) ==
    IF n > Len(ChildColumns) THEN [ok |-> TRUE, df |-> df]
    ELSE LET col     == ChildColumns[n]
             cleaned == [i \in 1..Len(df.rows) |-> cleanup_values(PyStr(df.rows[i].c[col]))]
         IN  IF col \notin df.cols THEN [ok |-> FALSE, df |-> df]
             ELSE IF \E i \in 1..Len(df.rows) : ~cleaned[i].ok THEN [ok |-> FALSE, df |-> df]
             ELSE NomCleanup(
                    [cols |-> df.cols,
                     rows |-> [i \in 1..Len(df.rows) |->
                                 [id |-> df.rows[i].id,
                                  c  |-> [k \in df.cols |->
                                             IF k = col THEN Str(cleaned[i].v)
                                             ELSE df.rows[i].c[k]]]]],
                    n + 1)

\* [ok, df]: whether the call returned, and the table as the call left it
parse_nominations(df) ==
    LET first == NomParents(df, 1)
    IN  IF first.ok THEN NomCleanup(first.df, 1) ELSE first

---------------------------------------------------------------------------
(* Specification of isolate_race_value on every short group list           *)

MaxGroups == 3

RaceLabelPool == {<<"W">>, <<"A", "s">>, <<"B", " ", "o">>}

GroupPool == [label : RaceLabelPool, flag : BOOLEAN]

RECURSIVE SeqsUpTo(_, _)
SeqsUpTo(S, n) ==
    IF n = 0 THEN {<<>>}
    ELSE LET shorter == SeqsUpTo(S, n - 1)
         IN  shorter \cup {<<e>> \o s : e \in S, s \in {t \in shorter : Len(t) = n - 1}}

PNAText == <<"P", "N", "A">>

NoneText == <<"N", "o", "n", "e">>

\* Race cells: an exported group list, the PNA sentinel, the text of a
\* missing value, and the NaN the pivot leaves where a ping has no answer
InitRace ==
    /\ arg \in {[encoded |-> TRUE, groups |-> gs, cell |-> Str(RaceText(gs))] :
                    gs \in SeqsUpTo(GroupPool, MaxGroups)}
               \cup {[encoded |-> FALSE, groups |-> <<>>, cell |-> c] :
                    c \in {NaN, Str(PNAText), Str(NoneText)}}
    /\ ret = None
    /\ step = 0
    /\ RunIdle

RaceApply ==
    /\ step = 0
    /\ ret' = isolate_race_value(arg.cell)
    /\ step' = 1
    /\ UNCHANGED <<arg, runvars>>

NextRace == RaceApply

SpecRace == InitRace /\ [][NextRace]_vars

\* The labels of the groups whose flag is true, in order
RECURSIVE TrueLabels(_)
TrueLabels(gs) ==
    IF gs = <<>> THEN <<>>
    ELSE (IF Head(gs).flag THEN <<Head(gs).label>> ELSE <<>>) \o TrueLabels(Tail(gs))

\* C10: after isolate_race_value has run on a Race cell, an exported group
\* list yields exactly the labels of its true groups in order (the empty
\* list when none is true), and None is returned only for a cell that is
\* no text at all.
C10_RaceDecoded ==
    step = 1 =>
        /\ arg.encoded => ret = List(TrueLabels(arg.groups))
        /\ ret.t = "none" => arg.cell.t # "str"

\* a list of three groups, the second one false, has been decoded to the
\* labels of the other two
C10_Witness ==
    /\ step = 1
    /\ arg.encoded
    /\ Len(arg.groups) = 3
    /\ arg.groups[1].flag /\ ~arg.groups[2].flag /\ arg.groups[3].flag
    /\ Len(ret.l) = 2

---------------------------------------------------------------------------
(* Specification of the two decoders on every one-row answer table         *)

MaxItems == 4

\* The i-th nominee's name
Nominee(i) == <<"n", ToString(i)>>

\* The cell derive_answers stores for a nomination answer naming n people
NomText(n) == StoredValue(ReprList([i \in 1..n |-> ReprStr(Nominee(i))])).v

ParentCells == {NaN, Str(PNAText)} \cup {Str(NomText(n)) : n \in 1..MaxItems}

RaceCells ==
    {Str(RaceText(<<[label |-> <<"W">>, flag |-> TRUE], [label |-> <<"A", "s">>, flag |-> FALSE]>>)),
     Str(PNAText)}

ParentSet == {Parents[p] : p \in 1..Len(Parents)}

\* A one-row table with the question column q1, the parent columns ps
\* holding the cells g, and the Race column when hasRace
DecodeInput(ps, g, hasRace, rc) ==
    LET cs == {"q1"} \cup ps \cup (IF hasRace THEN {"Race"} ELSE {})
    IN  [cols |-> cs,
         rows |-> <<[id |-> "p1",
                     c  |-> [k \in cs |->
                                IF k = "q1" THEN Str(<<"y", "e", "s">>)
                                ELSE IF k = "Race" THEN rc
                                ELSE g[k]]]>>]

\* Every subset of the Race and parent columns, every cell of the pools
InitDecode ==
    /\ \E ps \in SUBSET ParentSet, hasRace \in BOOLEAN :
         \E g \in [ps -> ParentCells], rc \in RaceCells :
            /\ hasRace \/ rc = Str(PNAText)
            /\ arg = DecodeInput(ps, g, hasRace, rc)
    /\ ret = [ok |-> TRUE, df |-> arg]
    /\ step = 0
    /\ RunIdle

\* answers = self.parse_race(answers), as parse_responses calls it: when the
\* call raises, answers keeps the table the call left
DecodeRace ==
    /\ step = 0
    /\ ret' = parse_race(ret.df)
    /\ step' = 1
    /\ UNCHANGED <<arg, runvars>>

\* answers = self.parse_nominations(answers), likewise
DecodeNominations ==
    /\ step = 1
    /\ ret' = parse_nominations(ret.df)
    /\ step' = 2
    /\ UNCHANGED <<arg, runvars>>

NextDecode == DecodeRace \/ DecodeNominations

SpecDecode == InitDecode /\ [][NextDecode]_vars

\* C6: after parse_race and parse_nominations have run, the table has the
\* Race column and the three child columns of each of the four parents on
\* every row, whichever of the five columns the input had, and the child
\* columns of an absent parent are empty.
C6_DecodedColumnsPresent ==
    step = 2 =>
        /\ "Race" \in ret.df.cols
        /\ \A p \in 1..Len(Parents) : \A k \in 1..3 :
              /\ ChildName(Parents[p], k) \in ret.df.cols
              /\ Parents[p] \notin arg.cols =>
                    \A i \in 1..Len(ret.df.rows) :
                        ret.df.rows[i].c[ChildName(Parents[p], k)] = Str(<<>>)

\* The cell of slot k for a row naming n people: the k-th nominee, with or
\* without the quotes the second cleanup pass removes, or the empty string
SlotCells(n, k) ==
    IF k <= n THEN {Str(Nominee(k)), Str(ReprStr(Nominee(k)))} ELSE {Str(<<>>)}

\* C11: for a table that has the Race column and all four parent columns,
\* after parse_nominations a row whose parent value lists n people has
\* person k in child slot k for every k <= min(n, 3), its slots above n
\* empty, and the table has no column besides those of the input and the
\* three child slots of each parent.
C11_ItemsFillSlotsInOrder ==
    (step = 2 /\ ParentSet \subseteq arg.cols /\ "Race" \in arg.cols) =>
        /\ \A p \in 1..Len(Parents) : \A n \in 1..MaxItems :
              arg.rows[1].c[Parents[p]] = Str(NomText(n)) =>
                 \A k \in 1..3 :
                    /\ ChildName(Parents[p], k) \in ret.df.cols
                    /\ ret.df.rows[1].c[ChildName(Parents[p], k)] \in SlotCells(n, k)
        /\ ret.df.cols \subseteq
              arg.cols \cup {ChildName(Parents[p], k) : p \in 1..Len(Parents), k \in 1..3}

---------------------------------------------------------------------------
(* C9                                                                      *)

EdgeChars == {"[", "]", SQ, DQ}

\* x has no quote or bracket at either edge (the empty string has none)
EdgeFree(x) == x = <<>> \/ (Head(x) \notin EdgeChars /\ x[Len(x)] \notin EdgeChars)

\* C9: for every string free of edge quotes and brackets, the empty string
\* included, cleanup_values returns a value and a second application
\* returns the same value.
C9_CleanupIdempotent ==
    EdgeFree(arg) =>
        /\ step >= 1 => ret.ok
        /\ step = 2 => ret = cleanup_values(arg)

---------------------------------------------------------------------------
(* Keys, sanity_check, derive_pings, parse_device_info                     *)

Dash == <<"-">>

\* KEY.split('-')[0]
Username(KEY) == Split(KEY, Dash)[1]

\* sanity_check: output_dict.  instances is [x for x in keys if sub in x]:
\* the keys that contain sub anywhere.
sanity_check(ks) ==
    LET sub_ids        == {Split(ks[n], Dash)[1] : n \in 1..Len(ks)}
        instances(sub) == SelectSeq(ks, LAMBDA x : Contains(x, sub))
    IN  [sub \in {u \in sub_ids : Len(instances(u)) > 1} |->
            [count |-> Len(instances(sub)), keys |-> instances(sub)]]

\* derive_pings: one row per ping with username and login-node; a record
\* without pings, or with none, has not the columns the projection names
derive_pings(subset, KEY) ==
    IF ~subset.hasPings \/ subset.pings = <<>>
    THEN [ok |-> FALSE, rows |-> <<>>]
    ELSE [ok |-> TRUE,
          rows |-> [n \in 1..Len(subset.pings) |->
                      [username   |-> Split(KEY, Dash)[1],
                       login_node |-> Join(Tail(Split(KEY, Dash))),
                       id         |-> subset.pings[n]]]]

\* parse_device_info: one row, or the KeyError of a missing device or app
parse_device_info(subset, KEY) ==
    IF ~subset.hasDevice \/ ~subset.hasApp
    THEN [ok |-> FALSE, row |-> <<>>]
    ELSE [ok |-> TRUE,
          row |-> <<[username   |-> subset.username,
                     login_time |-> Split(KEY, Dash)[Len(Split(KEY, Dash))],
                     key        |-> KEY]>>]

---------------------------------------------------------------------------
(* output, parse_responses                                                 *)

Csv == <<".", "c", "s", "v">>

\* PINGS.merge(ANSWERS, on="id"): the ping rows whose id has an answer row
MergeOnId(PINGS, ANSWERS) ==
    LET match(p) == {n \in 1..Len(ANSWERS.rows) : ANSWERS.rows[n].id = p.id}
        joined   == SelectSeq(PINGS, LAMBDA p : match(p) # {})
    IN  [n \in 1..Len(joined) |->
            [username   |-> joined[n].username,
             login_node |-> joined[n].login_node,
             id         |-> joined[n].id,
             c          |-> ANSWERS.rows[CHOOSE m \in match(joined[n]) : TRUE].c]]

\* output with KICKOUT: the composite table, and the directory after
\* to_csv; fs maps the names of the files written so far to their tables
output(KEY, PINGS, ANSWERS, fs) ==
    LET user      == Split(KEY, Dash)[1]
        composite == [key |-> KEY, cols |-> ANSWERS.cols, rows |-> MergeOnId(PINGS, ANSWERS)]
        first     == user \o Csv
        name      == IF first \in DOMAIN fs THEN user \o <<"_", "b">> \o Csv ELSE first
    IN  [table |-> composite,
         files |-> [f \in DOMAIN fs \cup {name} |-> IF f = name THEN composite ELSE fs[f]]]

StageLog_silent(ok, stage) == <<>>

\* except Exception as e: LOG.write(f"Caught @ {username} + <stage>: {e}")
StageLog(ok, stage) == IF ok THEN <<>> ELSE <<stage>>

NoFrame == [key |-> <<>>, cols |-> {}, rows |-> <<>>]

\* parse_responses.  A stage that raises leaves its variable as it was; a
\* variable never assigned (answers, pings) raises NameError in the stages
\* that read it.  The device projection, the merge and the call of output
\* stand outside every try.  Result: whether the call returned, its table,
\* the stages it logged in order, and the output directory afterwards.
parse_responses(KEY, subset, fs) ==
    LET a        == derive_answers(subset.answers)
        r        == IF a.ok THEN parse_race(a.df) ELSE [ok |-> FALSE, df |-> NoTable]
        n        == IF a.ok THEN parse_nominations(r.df) ELSE [ok |-> FALSE, df |-> NoTable]
        p        == derive_pings(subset, KEY)
        logged   == a.logged \o StageLog(a.ok, "derive_answers")
                             \o StageLog(r.ok, "parse_race")
                             \o StageLog(n.ok, "parse_nominations")
                             \o StageLog(p.ok, "derive_pings")
        returned == subset.hasDevice /\ p.ok /\ a.ok
        out      == output(KEY, p.rows, n.df, fs)
    IN  IF returned
        THEN [ok |-> TRUE, table |-> out.table, logged |-> logged, files |-> out.files]
        ELSE [ok |-> FALSE, table |-> NoFrame, logged |-> logged, files |-> fs]

---------------------------------------------------------------------------
(* The record stores of the model                                          *)

MaxKeys == 3

\* al-A, al-B, al-C-D: three sessions of one subject; sal-A: another subject
KeyPool ==
    << <<"a", "l", "-", "A">>,
       <<"a", "l", "-", "B">>,
       <<"a", "l", "-", "C", "-", "D">>,
       <<"s", "a", "l", "-", "A">> >>

\* A raw answer whose data map holds the values with the texts reprs
Answer(p, q, d, reprs) ==
    [pingId |-> p, questionId |-> q, date |-> d, preferNotToAnswer |-> FALSE,
     data |-> [isMap |-> TRUE, reprs |-> reprs]]

PNAAnswer(p, q, d) ==
    [pingId |-> p, questionId |-> q, date |-> d, preferNotToAnswer |-> TRUE,
     data |-> [isMap |-> FALSE, reprs |-> <<>>]]

Yes == ReprStr(<<"y", "e", "s">>)

Nominees(n) == ReprList([m \in 1..n |-> ReprStr(Nominee(m))])

RaceGroups ==
    ReprList(<<ReprGroup([label |-> <<"W">>, flag |-> TRUE]),
               ReprGroup([label |-> <<"A", "s">>, flag |-> FALSE])>>)

Shapes == {"good", "empty", "empty_noapp", "noapp", "nodevice", "nopings",
           "nomatch", "duppair", "full"}

\* The answers of each shape: one answer; none; an answer to a ping the
\* record has not; one question answered twice at one ping; every decoded
\* column answered
ShapeAnswers(shape) ==
    CASE shape \in {"empty", "empty_noapp"} -> <<>>
      [] shape = "nomatch" -> <<Answer("p2", "q1", "d0", <<Yes>>)>>
      [] shape = "duppair" -> <<Answer("p1", "q1", "d0", <<Yes>>),
                                Answer("p1", "q1", "d1", <<Yes>>)>>
      [] shape = "full"    -> <<Answer("p1", "q1", "d0", <<Yes>>),
                                Answer("p1", "Race", "d1", <<RaceGroups>>),
                                Answer("p1", "SU_Nom", "d2", <<Nominees(2)>>),
                                PNAAnswer("p1", "SU_Nom_None_Nom", "d3"),
                                Answer("p1", "NSU_Rel", "d4", <<Nominees(1)>>),
                                Answer("p1", "NSU_Nom_None_Nom", "d5", <<Nominees(3)>>)>>
      [] OTHER             -> <<Answer("p1", "q1", "d0", <<Yes>>)>>

\* The subject record of a shape under key KEY
Rec(shape, KEY) ==
    [answers   |-> ShapeAnswers(shape),
     hasPings  |-> shape # "nopings",
     pings     |-> IF shape = "nopings" THEN <<>>
                   ELSE IF shape = "full" THEN <<"p1", "p2">> ELSE <<"p1">>,
     username  |-> Username(KEY),
     hasDevice |-> shape # "nodevice",
     hasApp    |-> shape \notin {"noapp", "empty_noapp"}]

\* json.load: any store of at most MaxKeys keys of the pool, in pool order
Init ==
    /\ \E S \in SUBSET (1..Len(KeyPool)) :
         /\ 1 <= Cardinality(S) /\ Cardinality(S) <= MaxKeys
         /\ keys = SelectSeq(KeyPool, LAMBDA k : \E n \in S : KeyPool[n] = k)
         /\ \E shape \in [S -> Shapes] :
               data = [k \in {KeyPool[n] : n \in S} |->
                          Rec(shape[CHOOSE n \in S : KeyPool[n] = k], k)]
    /\ pc = "sanity"
    /\ pos = 0
    /\ duplicates = <<>>
    /\ keepers = <<>>
    /\ parent_errors = <<>>
    /\ log = <<>>
    /\ files = <<>>
    /\ answers = [bound |-> FALSE, df |-> [cols |-> {}, rows |-> <<>>]]
    /\ pings = [bound |-> FALSE, rows |-> <<>>]
    /\ caught = {}
    /\ aggregate = <<>>
    /\ device_output = <<>>
    /\ device_log = <<>>
    /\ devices_file = <<>>
    /\ arg = <<>>
    /\ ret = <<>>
    /\ step = 0

---------------------------------------------------------------------------
(* run_this_puppy                                                          *)

Unbound == [bound |-> FALSE, df |-> NoTable]

NoPings == [bound |-> FALSE, rows |-> <<>>]

\* LOG.write(f"Caught @ {user} + {stage}") for each stage of stages
LogEntries(user, stages) == [n \in 1..Len(stages) |-> [user |-> user, stage |-> stages[n]]]

no_answers_below_two(subset) == Len(subset.answers) <= 1

\* len(subset['answers']) == 0
no_answers(subset) == Len(subset.answers) = 0

CaughtLog_silent(KEY) == <<>>

\* log.write(f"Caught @ {key.split('-')[0]}: {e}"): the entry names no stage
CaughtLog(KEY) == <<[user |-> Split(KEY, Dash)[1], stage |-> ""]>>

SanityCheck ==
    /\ pc = "sanity"
    /\ duplicates' = sanity_check(keys)
    /\ pc' = "answers"
    /\ pos' = 1
    /\ UNCHANGED <<fnvars, keys, data, keepers, parent_errors, log, files, answers,
                   pings, caught, aggregate, device_output, device_log, devices_file>>

\* The subject has no answers: to parent_errors, continue
AnswersSkipEmpty ==
    /\ pc = "answers" /\ pos <= Len(keys)
    /\ no_answers(data[keys[pos]])
    /\ parent_errors' = [k \in DOMAIN parent_errors \cup {keys[pos]} |->
                            IF k = keys[pos] THEN data[keys[pos]] ELSE parent_errors[k]]
    /\ pos' = pos + 1
    /\ UNCHANGED <<fnvars, keys, data, pc, duplicates, keepers, log, files, answers,
                   pings, caught, aggregate, device_output, device_log, devices_file>>

\* parse_responses is entered: its locals are not assigned yet
AnswersEnter ==
    /\ pc = "answers" /\ pos <= Len(keys)
    /\ ~no_answers(data[keys[pos]])
    /\ answers' = Unbound
    /\ pings' = NoPings
    /\ pc' = "derive_answers"
    /\ UNCHANGED <<fnvars, keys, data, pos, duplicates, keepers, parent_errors, log,
                   files, caught, aggregate, device_output, device_log, devices_file>>

\* try: answers = self.derive_answers(...)
DeriveAnswers ==
    /\ pc = "derive_answers"
    /\ LET a == derive_answers(data[keys[pos]].answers)
       IN  /\ answers' = IF a.ok THEN [bound |-> TRUE, df |-> a.df] ELSE answers
           /\ log' = log \o LogEntries(Username(keys[pos]),
                                       a.logged \o StageLog(a.ok, "derive_answers"))
    /\ pc' = "parse_race"
    /\ UNCHANGED <<fnvars, keys, data, pos, duplicates, keepers, parent_errors, files,
                   pings, caught, aggregate, device_output, device_log, devices_file>>

\* try: answers = self.parse_race(answers); an unassigned answers raises
\* NameError, caught like any other error
ParseRace ==
    /\ pc = "parse_race"
    /\ LET r == IF answers.bound THEN parse_race(answers.df)
                ELSE [ok |-> FALSE, df |-> answers.df]
       IN  /\ answers' = [answers EXCEPT !.df = r.df]
           /\ log' = log \o LogEntries(Username(keys[pos]), StageLog(r.ok, "parse_race"))
    /\ pc' = "parse_nominations"
    /\ UNCHANGED <<fnvars, keys, data, pos, duplicates, keepers, parent_errors, files,
                   pings, caught, aggregate, device_output, device_log, devices_file>>

\* try: answers = self.parse_nominations(answers)
ParseNominations ==
    /\ pc = "parse_nominations"
    /\ LET n == IF answers.bound THEN parse_nominations(answers.df)
                ELSE [ok |-> FALSE, df |-> answers.df]
       IN  /\ answers' = [answers EXCEPT !.df = n.df]
           /\ log' = log \o LogEntries(Username(keys[pos]),
                                       StageLog(n.ok, "parse_nominations"))
    /\ pc' = "derive_pings"
    /\ UNCHANGED <<fnvars, keys, data, pos, duplicates, keepers, parent_errors, files,
                   pings, caught, aggregate, device_output, device_log, devices_file>>

\* try: pings = self.derive_pings(...)
DerivePings ==
    /\ pc = "derive_pings"
    /\ LET p == derive_pings(data[keys[pos]], keys[pos])
       IN  /\ pings' = IF p.ok THEN [bound |-> TRUE, rows |-> p.rows] ELSE pings
           /\ log' = log \o LogEntries(Username(keys[pos]), StageLog(p.ok, "derive_pings"))
    /\ pc' = "output"
    /\ UNCHANGED <<fnvars, keys, data, pos, duplicates, keepers, parent_errors, files,
                   answers, caught, aggregate, device_output, device_log, devices_file>>

\* The device projection, pings.merge and output(...) all return
Returns(subset) == subset.hasDevice /\ pings.bound /\ answers.bound

\* The rest of parse_responses returned: keepers.append(parsed_data)
AnswersParsed ==
    /\ pc = "output"
    /\ Returns(data[keys[pos]])
    /\ LET out == output(keys[pos], pings.rows, answers.df, files)
       IN  /\ keepers' = Append(keepers, out.table)
           /\ files' = out.files
    /\ pc' = "answers"
    /\ pos' = pos + 1
    /\ UNCHANGED <<fnvars, keys, data, duplicates, parent_errors, log, answers, pings,
                   caught, aggregate, device_output, device_log, devices_file>>

\* It raised (a missing device map, or a local never assigned): the except
\* clause of the loop logs and continues
AnswersCaught ==
    /\ pc = "output"
    /\ ~Returns(data[keys[pos]])
    /\ log' = log \o CaughtLog(keys[pos])
    /\ caught' = caught \cup {keys[pos]}
    /\ pc' = "answers"
    /\ pos' = pos + 1
    /\ UNCHANGED <<fnvars, keys, data, duplicates, keepers, parent_errors, files,
                   answers, pings, aggregate, device_output, device_log, devices_file>>

\* pd.concat(keepers): the rows of the collected tables from the n-th on,
\* each with the key of the table it comes from
RECURSIVE ConcatFrom(_, _)
ConcatFrom(tables, n) ==
    IF n > Len(tables) THEN <<>>
    ELSE [m \in 1..Len(tables[n].rows) |->
             [key |-> tables[n].key, row |-> tables[n].rows[m]]]
         \o ConcatFrom(tables, n + 1)

Concat(tables) == ConcatFrom(tables, 1)

\* pd.concat([]) raises "No objects to concatenate": sys.exit(1)
AggregateFatal ==
    /\ pc = "answers" /\ pos > Len(keys)
    /\ keepers = <<>>
    /\ pc' = "exit1"
    /\ UNCHANGED <<fnvars, keys, data, pos, duplicates, keepers, parent_errors, log,
                   files, answers, pings, caught, aggregate, device_output, device_log,
                   devices_file>>

\* the pings aggregate and parent-errors.json are written
AggregatePings ==
    /\ pc = "answers" /\ pos > Len(keys)
    /\ keepers # <<>>
    /\ aggregate' = Concat(keepers)
    /\ pc' = "devices"
    /\ pos' = 1
    /\ UNCHANGED <<fnvars, keys, data, duplicates, keepers, parent_errors, log,
                   files, answers, pings, caught, device_output, device_log, devices_file>>

\* One iteration of the device loop up to the end of its try statement:
\* [out, log] after it
device_iteration(KEY, subset, out, dlog) ==
    LET d == parse_device_info(subset, KEY)
    IN  IF d.ok THEN [out |-> out \o d.row, log |-> dlog]
        ELSE [out |-> out, log |-> Append(dlog, [user |-> Username(KEY)])]

\* The iteration, then pd.concat(device_output) and to_csv
DeviceStep ==
    /\ pc = "devices" /\ pos <= Len(keys)
    /\ LET d == device_iteration(keys[pos], data[keys[pos]], device_output, device_log)
       IN  /\ d.out # <<>>
           /\ device_output' = d.out
           /\ device_log' = d.log
           /\ devices_file' = d.out
    /\ pos' = pos + 1
    /\ UNCHANGED <<fnvars, keys, data, pc, duplicates, keepers, parent_errors, log,
                   files, answers, pings, caught, aggregate>>

\* pd.concat(device_output) stands after the try statement: with no device
\* row collected yet it raises ValueError, which nothing catches
DeviceUncaught ==
    /\ pc = "devices" /\ pos <= Len(keys)
    /\ LET d == device_iteration(keys[pos], data[keys[pos]], device_output, device_log)
       IN  /\ d.out = <<>>
           /\ device_output' = d.out
           /\ device_log' = d.log
    /\ pc' = "uncaught"
    /\ UNCHANGED <<fnvars, keys, data, pos, duplicates, keepers, parent_errors, log,
                   files, answers, pings, caught, aggregate, devices_file>>

Finish ==
    /\ pc = "devices" /\ pos > Len(keys)
    /\ pc' = "done"
    /\ UNCHANGED <<fnvars, keys, data, pos, duplicates, keepers, parent_errors, log,
                   files, answers, pings, caught, aggregate, device_output, device_log,
                   devices_file>>

Next ==
    \/ SanityCheck
    \/ AnswersSkipEmpty
    \/ AnswersEnter
    \/ DeriveAnswers
    \/ ParseRace
    \/ ParseNominations
    \/ DerivePings
    \/ AnswersParsed
    \/ AnswersCaught
    \/ AggregateFatal
    \/ AggregatePings
    \/ DeviceStep
    \/ DeviceUncaught
    \/ Finish

Spec == Init /\ [][Next]_vars

---------------------------------------------------------------------------
(* What the run has done so far                                            *)

KeySet == {keys[n] : n \in 1..Len(keys)}

StagePcs == {"derive_answers", "parse_race", "parse_nominations", "derive_pings", "output"}

AfterAnswersLoop == pc \in {"devices", "done", "exit1", "uncaught"}

\* The pings aggregate has been written
AggregateWritten == pc \in {"devices", "done", "uncaught"}

\* The answers loop is through with the n-th key
AnswersDone(n) == AfterAnswersLoop \/ (pc \in StagePcs \cup {"answers"} /\ n < pos)

KeeperKeys == {keepers[n].key : n \in 1..Len(keepers)}

AggregateKeys == {aggregate[n].key : n \in 1..Len(aggregate)}

Logged(user, stage) == \E n \in 1..Len(log) : log[n] = [user |-> user, stage |-> stage]

\* The key's first '-'-separated segment, and what follows the first '-'
SubjectId(KEY) == SubSeq(KEY, 1, Find(KEY, Dash) - 1)

SessionSuffix(KEY) == SubSeq(KEY, Find(KEY, Dash) + 1, Len(KEY))

KeysOfSubject(sub) == SelectSeq(keys, LAMBDA k : SubjectId(k) = sub)

---------------------------------------------------------------------------
(* Claims about the run                                                    *)

\* C1: the duplicate report has an entry for subject s exactly when more
\* than one key has s as its first segment; the entry's count is the number
\* of those keys and its keys are exactly those keys.
C1_DuplicateReport ==
    pc # "sanity" =>
        /\ DOMAIN duplicates = {s \in {SubjectId(k) : k \in KeySet} : Len(KeysOfSubject(s)) > 1}
        /\ \A s \in DOMAIN duplicates :
              /\ duplicates[s].count = Len(KeysOfSubject(s))
              /\ duplicates[s].keys = KeysOfSubject(s)

\* C2: once the duplicate scan is done, the run aborts exactly when no
\* subject table was collected by the answers loop: an aborted run has no
\* collected table, and a run that went on to the device loop has one and
\* does not abort there.
C2_AbortsOnlyWhenEmpty ==
    /\ pc \in {"exit1", "uncaught"} => keepers = <<>>
    /\ pc \in {"devices", "done"} => keepers # <<>>

\* C3: a key whose record has no answers is put in parent_errors with its
\* record unchanged, never enters parse_responses, has no per-subject file
\* and no row in the pings aggregate; a key with answers is never put in
\* parent_errors.
C3_EmptyAnswersExcluded ==
    /\ \A n \in 1..Len(keys) :
          (AnswersDone(n) /\ Len(data[keys[n]].answers) = 0) =>
              /\ keys[n] \in DOMAIN parent_errors
              /\ parent_errors[keys[n]] = data[keys[n]]
              /\ keys[n] \notin KeeperKeys \cup caught \cup AggregateKeys
              /\ \A f \in DOMAIN files : files[f].key # keys[n]
    /\ pc \in StagePcs => Len(data[keys[pos]].answers) # 0
    /\ \A k \in DOMAIN parent_errors : Len(data[k].answers) = 0

\* a run has ended with a subject without answers in parent_errors and
\* another subject's table collected and written
C3_Witness ==
    /\ pc = "done"
    /\ \E k \in DOMAIN parent_errors : Len(data[k].answers) = 0
    /\ keepers # <<>>
    /\ files # <<>>

\* C4 as stated: the keys with rows in the pings aggregate number the input
\* keys less those in parent_errors less those dropped with a logged error.
C4_AggregateCountsSubjects ==
    AggregateWritten =>
        Cardinality(AggregateKeys)
            = Len(keys) - Cardinality(DOMAIN parent_errors) - Cardinality(caught)

\* C4 amended: the subject tables collected for the pings aggregate number
\* the input keys less those in parent_errors less those dropped with a
\* logged error, and every input key is exactly one of collected, in
\* parent_errors, dropped with a log entry; only collected keys have rows
\* in the aggregate (a collected table may have none).
C4_CollectedCountsKeys ==
    AggregateWritten =>
        /\ Len(keepers) = Len(keys) - Cardinality(DOMAIN parent_errors) - Cardinality(caught)
        /\ Cardinality(KeeperKeys) = Len(keepers)
        /\ KeySet = KeeperKeys \cup DOMAIN parent_errors \cup caught
        /\ KeeperKeys \cap DOMAIN parent_errors = {}
        /\ KeeperKeys \cap caught = {}
        /\ caught \cap DOMAIN parent_errors = {}
        /\ \A k \in caught : Logged(SubjectId(k), "")
        /\ AggregateKeys \subseteq KeeperKeys

\* the aggregate was written from a store with a subject in parent_errors,
\* a dropped subject, and a collected subject without any row
C4_Witness ==
    /\ AggregateWritten
    /\ parent_errors # <<>>
    /\ caught # {}
    /\ \E n \in 1..Len(keepers) : keepers[n].rows = <<>>

\* The stages of parse_responses that fail on the record under KEY (a
\* stage that only reads a variable an earlier failure left unassigned is
\* not counted as failing itself)
FailedStages(KEY) ==
    LET a == derive_answers(data[KEY].answers)
        r == parse_race(a.df)
    IN  (IF a.ok THEN {} ELSE {"derive_answers"})
        \cup (IF a.ok /\ ~r.ok THEN {"parse_race"} ELSE {})
        \cup (IF a.ok /\ ~parse_nominations(r.df).ok THEN {"parse_nominations"} ELSE {})
        \cup (IF derive_pings(data[KEY], KEY).ok THEN {} ELSE {"derive_pings"})
        \cup (IF data[KEY].hasDevice THEN {} ELSE {"device_merge"})

\* The stages whose except clause names them in the log
NamedStages == {"derive_answers", "parse_race", "parse_nominations", "derive_pings"}

\* The stages whose failure ends parse_responses with an exception
DroppingStages == {"derive_answers", "derive_pings", "device_merge"}

\* C5 as stated: for every subject of the answers loop, each failing stage
\* (derive_answers, parse_race, parse_nominations, derive_pings, device
\* merge, output) has a log entry naming the subject and that stage.
C5_EveryFailureNamesItsStage ==
    \A n \in 1..Len(keys) :
        (AnswersDone(n) /\ Len(data[keys[n]].answers) # 0) =>
            \A stage \in FailedStages(keys[n]) : Logged(SubjectId(keys[n]), stage)

\* C5 amended: every failure of a stage is caught.  A failing
\* derive_answers, parse_race, parse_nominations or derive_pings has a log
\* entry naming the subject and the stage; a failing device merge has one
\* naming the subject only.  A subject whose derive_answers, derive_pings
\* or device merge failed is dropped with an entry naming the subject only;
\* any other subject with answers is collected.  The loop goes on to every
\* later key, and each collected table is the one its own record yields,
\* whatever failed before it.
C5_FailuresCaughtAndLogged ==
    /\ \A n \in 1..Len(keys) :
          (AnswersDone(n) /\ Len(data[keys[n]].answers) # 0) =>
              /\ \A stage \in FailedStages(keys[n]) \cap NamedStages :
                    Logged(SubjectId(keys[n]), stage)
              /\ FailedStages(keys[n]) \cap DroppingStages # {} =>
                    /\ Logged(SubjectId(keys[n]), "")
                    /\ keys[n] \in caught
                    /\ keys[n] \notin KeeperKeys
              /\ FailedStages(keys[n]) \cap DroppingStages = {} =>
                    keys[n] \in KeeperKeys
    /\ \A n \in 1..Len(keepers) :
          keepers[n] = parse_responses(keepers[n].key, data[keepers[n].key], <<>>).table
    /\ AfterAnswersLoop => \A n \in 1..Len(keys) : AnswersDone(n)
    /\ pc \in StagePcs \cup {"answers"} => pos <= Len(keys) + 1

\* a subject failed in derive_pings and was dropped, and the next key's
\* table was collected
C5_Witness ==
    /\ AfterAnswersLoop
    /\ \E n \in 1..(Len(keys) - 1) :
          /\ "derive_pings" \in FailedStages(keys[n])
          /\ Logged(SubjectId(keys[n]), "derive_pings")
          /\ keys[n] \in caught
          /\ keys[n + 1] \in KeeperKeys

\* C7: a table written for one session key of a subject is not overwritten
\* by the output of another session key: every collected table is still
\* in the per-subject directory.
C7_NoTableOverwritten ==
    \A n \in 1..Len(keepers) : \E f \in DOMAIN files : files[f] = keepers[n]

\* C8: in every ping row derive_pings makes for a key, username is the
\* key's first segment and login-node is exactly what follows the key's
\* first '-'.
C8_LoginNodeIsSuffix ==
    \A n \in 1..Len(keepers) : \A m \in 1..Len(keepers[n].rows) :
        /\ keepers[n].rows[m].username = SubjectId(keepers[n].key)
        /\ keepers[n].rows[m].login_node = SessionSuffix(keepers[n].key)

\* The key of the record the answers loop is at has gone through derive_answers
DerivedAnswers == pc \in {"parse_race", "parse_nominations", "derive_pings", "output"}

\* C12: in derive_answers, for every answers sequence, no two of the rows
\* that survive the removal of duplicate dates share a (pingId, questionId)
\* pair, so the pivot returns a table.
C12_DedupLeavesNoDuplicatePair ==
    DerivedAnswers =>
        /\ ~PivotDuplicates(DropDuplicateDates(data[keys[pos]].answers))
        /\ answers.bound

\* The device rows of the keys whose parse_device_info returns, in key order
DeviceRowsOf(ks) ==
    LET good == SelectSeq(ks, LAMBDA k : parse_device_info(data[k], k).ok)
    IN  [n \in 1..Len(good) |-> parse_device_info(data[good[n]], good[n]).row[1]]

\* The device phase has ended, by the end of its loop or by an error
DevicePhaseOver == pc \in {"done", "uncaught"}

\* C13: when a run that reached the device phase has ended, the device
\* aggregate holds one row for every key whose parse_device_info returned,
\* in key order, whatever the answers loop did with the key; every key
\* whose parse_device_info failed is in the device log; and the pings
\* aggregate is what the answers loop collected.
C13_DeviceAggregateComplete ==
    DevicePhaseOver =>
        /\ devices_file = DeviceRowsOf(keys)
        /\ \A n \in 1..Len(keys) :
              ~parse_device_info(data[keys[n]], keys[n]).ok =>
                  \E m \in 1..Len(device_log) : device_log[m].user = Username(keys[n])
        /\ aggregate = Concat(keepers)

====
